---- MODULE Spec2Model ----
(***************************************************************************)
(* Reseau de tchat en anneau : messages (tchat), routage d'un message COM, *)
(* assemblage de la population et des consignes.                           *)
(*   SpecMessages : derivations de messages (transit, avecAccuseReception, *)
(*                  messageRetourErreur) par des appelants concurrents.    *)
(*   SpecRoutage  : traitement d'un message recu par le serveur.           *)
(*   SpecAnneau   : assemblage de la population et des consignes.          *)
(***************************************************************************)
EXTENDS FiniteSets, Integers, Sequences, TLC

VARIABLES
    \* --- messages ---
    tas,            \* enveloppes de messages creees, dans l'ordre de creation
    origine,        \* pour chaque enveloppe : operation et enveloppe source
    pcAppelant,     \* position de chaque appelant concurrent
    \* --- routage ---
    pcServeur,      \* "attente" | "recu" | "route"
    population,     \* identifiants des sommets connus du serveur
    bloques,        \* couples <<emetteur, destinataire>> interdits
    recu,           \* message recu par le serveur (ou Aucun)
    envois,         \* envois produits par le traitement du message recu
    \* --- anneau ---
    ND,             \* nombre de domaines
    NU,             \* nombre d'utilisateurs par domaine : [0, ND[ -> ]0, omega[
    phase,          \* "peuplement" | "consignes" | "fini"
    i,              \* indice du domaine courant
    j,              \* indice de l'utilisateur courant
    popAConnecter,  \* ID dom -> ID util -> utilisateur (complete apres assemblage)
    popConnectee,   \* ID dom -> ID util -> utilisateur (vide initialement)
    EPop,           \* ID dom -> suite des utilisateurs du domaine
    C,              \* table des consignes : <<ID dom, ID util>> -> consigne
    \* --- connexions ---
    pcSession,      \* position de chaque session cliente : "pret" | "fini"
    resultat,       \* issue de la tentative de connexion de chaque session
    livraisons,     \* messages d'erreur de connexion remis, avec leur destinataire
    \* --- noeuds et configurations ---
    pcNoeud,        \* "absent" | "cree"
    noeudMutable,   \* etat JSON du noeud mutable cree
    pcConfiguration, \* "absente" | "creee" | "extraite"
    entreeConfiguration, \* noeud et date passes a configurationDeNoeudTchat
    configuration,  \* etat JSON de la configuration creee
    noeudExtrait,   \* etat JSON du noeud rendu par noeud()
    \* --- tableaux mutables ---
    natifs,         \* tableaux natifs (T[]) alloues
    etats,          \* etats JSON { taille, tableau } alloues
    tables,         \* enveloppes TableauMutableParEnveloppe creees
    dernier,        \* derniere operation sur un tableau et son issue
    \* --- melange ---
    pcMelange,      \* "arret" | "appel" | "boucle" | "fini"
    entree,         \* contenu du tableau tab au moment de l'appel de melange
    tab,            \* tableau natif passe a melange
    copie,          \* tableau local t de melange
    indice,         \* variable de boucle i de melange
    resultatMelange \* tableau JSON rendu par melange

varsMessages == <<tas, origine, pcAppelant>>
varsRoutage == <<pcServeur, population, bloques, recu, envois>>
varsAnneau == <<ND, NU, phase, i, j, popAConnecter, popConnectee, EPop, C>>
varsConnexion == <<pcSession, resultat, livraisons>>
varsNoeud == <<pcNoeud, noeudMutable, pcConfiguration, entreeConfiguration, configuration, noeudExtrait>>
varsTableaux == <<natifs, etats, tables, dernier>>
varsMelange == <<pcMelange, entree, tab, copie, indice, resultatMelange>>
vars == <<tas, origine, pcAppelant, pcServeur, population, bloques, recu, envois, ND, NU, phase, i, j, popAConnecter, popConnectee, EPop, C, pcSession, resultat, livraisons, pcNoeud, noeudMutable, pcConfiguration, entreeConfiguration, configuration, noeudExtrait, natifs, etats, tables, dernier, pcMelange, entree, tab, copie, indice, resultatMelange>>

Aucun == "aucun"

(***************************************************************************)
(* Messages de tchat                                                       *)
(***************************************************************************)

TypeMessageTchat == {"COM", "TRANSIT", "AR", "ERREUR_CONNEXION", "ERREUR_EMET", "ERREUR_DEST", "ERREUR_TYPE", "INTERDICTION"}

IdsMessage == {"m1", "m2"}
IdsSommet == {"s1", "s2"}
Contenus == {"salut", "erreur"}
Dates == {"10:00:00", "10:00:01"}
Appelants == {"a1", "a2"}
Sessions == {"c1", "c2", "c3"}

FormatMessageTchat == [ID : IdsMessage, ID_emetteur : IdsSommet, ID_destinataire : IdsSommet, type : TypeMessageTchat, contenu : Contenus, date : Dates]

\* Mutant : le transit echange emetteur et destinataire.
transitEchange(msg) ==
    [ID |-> msg.ID, ID_emetteur |-> msg.ID_destinataire, ID_destinataire |-> msg.ID_emetteur, type |-> "TRANSIT", contenu |-> msg.contenu, date |-> msg.date]

transit(msg) ==
    [ID |-> msg.ID, ID_emetteur |-> msg.ID_emetteur, ID_destinataire |-> msg.ID_destinataire, type |-> "TRANSIT", contenu |-> msg.contenu, date |-> msg.date]

\* Mutant : copie de transit dont le type n'a pas ete change en AR.
avecAccuseReceptionTypeTransit(msg) ==
    [ID |-> msg.ID, ID_emetteur |-> msg.ID_emetteur, ID_destinataire |-> msg.ID_destinataire, type |-> "TRANSIT", contenu |-> msg.contenu, date |-> msg.date]

avecAccuseReception(msg) ==
    [ID |-> msg.ID, ID_emetteur |-> msg.ID_emetteur, ID_destinataire |-> msg.ID_destinataire, type |-> "AR", contenu |-> msg.contenu, date |-> msg.date]

\* Mutant : le retour d'erreur est adresse a l'emetteur, comme messageErreurConnexion.
messageRetourErreurVersEmetteur(original, codeErreur, messageErreur) ==
    [ID |-> original.ID, ID_emetteur |-> original.ID_emetteur, ID_destinataire |-> original.ID_emetteur, type |-> codeErreur, contenu |-> messageErreur, date |-> original.date]

\* Mutant : le type de l'original est conserve au lieu du code d'erreur.
messageRetourErreurTypeOriginal(original, codeErreur, messageErreur) ==
    [ID |-> original.ID, ID_emetteur |-> original.ID_emetteur, ID_destinataire |-> original.ID_destinataire, type |-> original.type, contenu |-> messageErreur, date |-> original.date]

messageRetourErreur(original, codeErreur, messageErreur) ==
    [ID |-> original.ID, ID_emetteur |-> original.ID_emetteur, ID_destinataire |-> original.ID_destinataire, type |-> codeErreur, contenu |-> messageErreur, date |-> original.date]

\* Mutant : le type est celui d'une erreur d'emetteur.
messageErreurConnexionTypeEmet(id, idEmetteur, messageErreur, maintenant) ==
    [ID |-> id, ID_emetteur |-> idEmetteur, ID_destinataire |-> idEmetteur, type |-> "ERREUR_EMET", contenu |-> messageErreur, date |-> maintenant]

\* maintenant : la valeur rendue par dateMaintenant().val() lors de l'appel.
messageErreurConnexion(id, idEmetteur, messageErreur, maintenant) ==
    [ID |-> id, ID_emetteur |-> idEmetteur, ID_destinataire |-> idEmetteur, type |-> "ERREUR_CONNEXION", contenu |-> messageErreur, date |-> maintenant]

\* Mutant : l'etat de l'enveloppe source est modifie en place avant d'etre rendu.
NouvelleEnveloppeEnPlace(t, source, etat) ==
    Append([t EXCEPT ![source] = etat], etat)

\* new MessageTchatParEnveloppe(etat) : une nouvelle enveloppe, les autres inchangees.
NouvelleEnveloppe(t, source, etat) ==
    Append(t, etat)

\* Etats des parties du systeme qui ne sont pas en service dans une specification.
MessagesAuRepos ==
    /\ tas = <<>>
    /\ origine = <<>>
    /\ pcAppelant = [a \in Appelants |-> "fini"]

RoutageAuRepos ==
    /\ pcServeur = "arret"
    /\ population = {}
    /\ bloques = {}
    /\ recu = Aucun
    /\ envois = <<>>

AnneauAuRepos ==
    /\ ND = 0
    /\ NU = <<>>
    /\ phase = "arret"
    /\ i = 0
    /\ j = 0
    /\ popAConnecter = <<>>
    /\ popConnectee = <<>>
    /\ EPop = <<>>
    /\ C = <<>>

SansTentative == [statut |-> "aucune", ID |-> [categorie |-> "indefini", val |-> <<>>]]

ConnexionAuRepos ==
    /\ pcSession = [c \in Sessions |-> "fini"]
    /\ resultat = [c \in Sessions |-> SansTentative]
    /\ livraisons = {}

NoeudAuRepos ==
    /\ pcNoeud = "arret"
    /\ noeudMutable = Aucun
    /\ pcConfiguration = "arret"
    /\ entreeConfiguration = Aucun
    /\ configuration = Aucun
    /\ noeudExtrait = Aucun

TableauxAuRepos ==
    /\ natifs = <<>>
    /\ etats = <<>>
    /\ tables = <<>>
    /\ dernier = Aucun

MelangeAuRepos ==
    /\ pcMelange = "arret"
    /\ entree = <<>>
    /\ tab = <<>>
    /\ copie = <<>>
    /\ indice = 0
    /\ resultatMelange = Aucun

InitMessages ==
    /\ tas \in {<<m>> : m \in FormatMessageTchat}
    /\ origine = <<[op |-> "messageTchat", source |-> 0, code |-> Aucun, texte |-> Aucun]>>
    /\ pcAppelant = [a \in Appelants |-> "pret"]
    /\ RoutageAuRepos
    /\ AnneauAuRepos
    /\ ConnexionAuRepos
    /\ NoeudAuRepos
    /\ TableauxAuRepos
    /\ MelangeAuRepos

Transit(a, o) ==
    /\ pcAppelant[a] = "pret"
    /\ o \in DOMAIN tas
    /\ tas' = NouvelleEnveloppe(tas, o, transit(tas[o]))
    /\ origine' = Append(origine, [op |-> "transit", source |-> o, code |-> Aucun, texte |-> Aucun])
    /\ pcAppelant' = [pcAppelant EXCEPT ![a] = "fini"]
    /\ UNCHANGED <<varsRoutage, varsAnneau, varsConnexion, varsNoeud, varsTableaux, varsMelange>>

AvecAccuseReception(a, o) ==
    /\ pcAppelant[a] = "pret"
    /\ o \in DOMAIN tas
    /\ tas' = NouvelleEnveloppe(tas, o, avecAccuseReception(tas[o]))
    /\ origine' = Append(origine, [op |-> "avecAccuseReception", source |-> o, code |-> Aucun, texte |-> Aucun])
    /\ pcAppelant' = [pcAppelant EXCEPT ![a] = "fini"]
    /\ UNCHANGED <<varsRoutage, varsAnneau, varsConnexion, varsNoeud, varsTableaux, varsMelange>>

MessageRetourErreur(a, o, codeErreur, messageErreur) ==
    /\ pcAppelant[a] = "pret"
    /\ o \in DOMAIN tas
    /\ tas' = NouvelleEnveloppe(tas, o, messageRetourErreur(tas[o], codeErreur, messageErreur))
    /\ origine' = Append(origine, [op |-> "messageRetourErreur", source |-> o, code |-> codeErreur, texte |-> messageErreur])
    /\ pcAppelant' = [pcAppelant EXCEPT ![a] = "fini"]
    /\ UNCHANGED <<varsRoutage, varsAnneau, varsConnexion, varsNoeud, varsTableaux, varsMelange>>

NextMessages ==
    \/ \E a \in Appelants, o \in DOMAIN tas : Transit(a, o)
    \/ \E a \in Appelants, o \in DOMAIN tas : AvecAccuseReception(a, o)
    \/ \E a \in Appelants, o \in DOMAIN tas, c \in TypeMessageTchat, e \in Contenus : MessageRetourErreur(a, o, c, e)

SpecMessages == InitMessages /\ [][NextMessages]_vars

(***************************************************************************)
(* Proprietes des derivations de messages (SpecMessages)                   *)
(***************************************************************************)

Source(a) == tas[origine[a].source]

MemesChampsHorsType(m, n) ==
    /\ m.ID = n.ID
    /\ m.ID_emetteur = n.ID_emetteur
    /\ m.ID_destinataire = n.ID_destinataire
    /\ m.contenu = n.contenu
    /\ m.date = n.date

\* C1 : pour tout message m de l'un des huit types, transit(m) et
\* avecAccuseReception(m) rendent un message de memes ID, ID_emetteur,
\* ID_destinataire, contenu et date que m, de type TRANSIT pour transit et
\* AR pour avecAccuseReception.
C1_DerivationsConserventLesChamps ==
    \A a \in DOMAIN tas :
        /\ origine[a].op = "transit" =>
            (MemesChampsHorsType(tas[a], Source(a)) /\ tas[a].type = "TRANSIT")
        /\ origine[a].op = "avecAccuseReception" =>
            (MemesChampsHorsType(tas[a], Source(a)) /\ tas[a].type = "AR")

C1_Temoin ==
    /\ Len(tas) = 3
    /\ tas[1].type = "ERREUR_DEST"
    /\ tas[1].ID_emetteur # tas[1].ID_destinataire
    /\ origine[2] = [op |-> "transit", source |-> 1, code |-> Aucun, texte |-> Aucun]
    /\ origine[3] = [op |-> "avecAccuseReception", source |-> 1, code |-> Aucun, texte |-> Aucun]

\* C2 : transit et avecAccuseReception sont idempotentes : le transit d'un
\* transit de m est egal au transit de m, l'accuse de reception d'un accuse de
\* reception de m est egal a l'accuse de reception de m, sur tous les champs
\* (type compris).
C2_DerivationsIdempotentes ==
    \A a \in DOMAIN tas :
        /\ (origine[a].op = "transit" /\ origine[origine[a].source].op = "transit") =>
            tas[a] = Source(a)
        /\ (origine[a].op = "avecAccuseReception" /\ origine[origine[a].source].op = "avecAccuseReception") =>
            tas[a] = Source(a)

C2_Temoin ==
    /\ Len(tas) = 3
    /\ tas[1].type = "COM"
    /\ tas[1].ID_emetteur # tas[1].ID_destinataire
    /\ origine[2].op = "transit" /\ origine[2].source = 1
    /\ origine[3].op = "transit" /\ origine[3].source = 2

\* C3 : pour tout message original m, tout code d'erreur c et tout texte e,
\* messageRetourErreur(m, c, e) a l'ID, l'ID_emetteur, l'ID_destinataire et la
\* date de m, le type c et le contenu e.
C3_RetourErreurConserveLOriginal ==
    \A a \in DOMAIN tas :
        origine[a].op = "messageRetourErreur" =>
            /\ tas[a].ID = Source(a).ID
            /\ tas[a].ID_emetteur = Source(a).ID_emetteur
            /\ tas[a].ID_destinataire = Source(a).ID_destinataire
            /\ tas[a].date = Source(a).date
            /\ tas[a].type = origine[a].code
            /\ tas[a].contenu = origine[a].texte

C3_Temoin ==
    \E a \in DOMAIN tas :
        /\ origine[a].op = "messageRetourErreur"
        /\ origine[a].code = "ERREUR_DEST"
        /\ Source(a).type = "COM"
        /\ Source(a).contenu # origine[a].texte
        /\ Source(a).ID_emetteur # Source(a).ID_destinataire

\* C4 : les derivations ne modifient jamais le message auquel elles
\* s'appliquent : a chaque appel de transit, avecAccuseReception ou
\* messageRetourErreur, par n'importe quel appelant et dans n'importe quel
\* ordre, les six champs de chaque message existant restent ceux d'avant l'appel.
C4_DerivationsSansMutation ==
    [][\A a \in DOMAIN tas : a \in DOMAIN tas' /\ tas'[a] = tas[a]]_vars

C4_Temoin ==
    /\ Len(tas) = 3
    /\ \A a \in Appelants : pcAppelant[a] = "fini"
    /\ origine[2].op = "messageRetourErreur" /\ origine[2].source = 1
    /\ origine[3].op = "transit" /\ origine[3].source = 1
    /\ tas[2].type # tas[1].type
    /\ tas[2].contenu # tas[1].contenu

(***************************************************************************)
(* Routage d'un message recu par le serveur                                *)
(***************************************************************************)

TexteErreur == "erreur"

Retour(m, codeErreur) ==
    <<[a |-> m.ID_emetteur, msg |-> messageRetourErreur(m, codeErreur, TexteErreur)]>>

\* Mutant : le destinataire est controle avant l'emetteur.
validerEtRouterDestinataireDAbord(m, pop, blq) ==
    IF m.ID_destinataire \notin pop THEN Retour(m, "ERREUR_DEST")
    ELSE IF m.ID_emetteur \notin pop THEN Retour(m, "ERREUR_EMET")
    ELSE IF m.type # "COM" THEN Retour(m, "ERREUR_TYPE")
    ELSE IF <<m.ID_emetteur, m.ID_destinataire>> \in blq THEN Retour(m, "INTERDICTION")
    ELSE <<[a |-> m.ID_destinataire, msg |-> transit(m)], [a |-> m.ID_emetteur, msg |-> avecAccuseReception(m)]>>

validerEtRouter(m, pop, blq) ==
    IF m.ID_emetteur \notin pop THEN Retour(m, "ERREUR_EMET")
    ELSE IF m.ID_destinataire \notin pop THEN Retour(m, "ERREUR_DEST")
    ELSE IF m.type # "COM" THEN Retour(m, "ERREUR_TYPE")
    ELSE IF <<m.ID_emetteur, m.ID_destinataire>> \in blq THEN Retour(m, "INTERDICTION")
    ELSE <<[a |-> m.ID_destinataire, msg |-> transit(m)], [a |-> m.ID_emetteur, msg |-> avecAccuseReception(m)]>>

InitRoutage ==
    /\ pcServeur = "attente"
    /\ population \in SUBSET IdsSommet
    /\ bloques \in SUBSET (IdsSommet \X IdsSommet)
    /\ recu = Aucun
    /\ envois = <<>>
    /\ MessagesAuRepos
    /\ AnneauAuRepos
    /\ ConnexionAuRepos
    /\ NoeudAuRepos
    /\ TableauxAuRepos
    /\ MelangeAuRepos

Recevoir(m) ==
    /\ pcServeur = "attente"
    /\ recu' = m
    /\ pcServeur' = "recu"
    /\ UNCHANGED <<population, bloques, envois, varsMessages, varsAnneau, varsConnexion, varsNoeud, varsTableaux, varsMelange>>

Router ==
    /\ pcServeur = "recu"
    /\ envois' = validerEtRouter(recu, population, bloques)
    /\ pcServeur' = "route"
    /\ UNCHANGED <<population, bloques, recu, varsMessages, varsAnneau, varsConnexion, varsNoeud, varsTableaux, varsMelange>>

NextRoutage ==
    \/ \E m \in FormatMessageTchat : Recevoir(m)
    \/ Router

SpecRoutage == InitRoutage /\ [][NextRoutage]_vars

(***************************************************************************)
(* Proprietes du routage (SpecRoutage)                                     *)
(***************************************************************************)

TypesRetourErreur == {"ERREUR_EMET", "ERREUR_DEST", "ERREUR_TYPE", "INTERDICTION"}

RetourUnique(codeErreur) ==
    /\ Len(envois) = 1
    /\ envois[1].a = recu.ID_emetteur
    /\ envois[1].msg.type = codeErreur

TransitEtAR ==
    /\ Len(envois) = 2
    /\ \E p, q \in 1..2 :
        /\ p # q
        /\ envois[p].msg.type = "TRANSIT" /\ envois[p].a = recu.ID_destinataire
        /\ envois[q].msg.type = "AR" /\ envois[q].a = recu.ID_emetteur

\* C5 : le routage d'un message COM a exactement l'une de deux issues : soit un
\* TRANSIT (vers le destinataire) et un AR (vers l'emetteur) sont derives, soit
\* un seul retour d'erreur de type ERREUR_EMET, ERREUR_DEST, ERREUR_TYPE ou
\* INTERDICTION est rendu a l'emetteur ; jamais de TRANSIT ni d'AR avec un
\* retour d'erreur.
C5_RoutageDeuxIssues ==
    (pcServeur = "route" /\ recu.type = "COM") =>
        \/ TransitEtAR
        \/ \E c \in TypesRetourErreur : RetourUnique(c)

C5_Temoin ==
    /\ pcServeur = "route"
    /\ recu.type = "COM"
    /\ recu.ID_emetteur # recu.ID_destinataire
    /\ RetourUnique("INTERDICTION")

\* C6 : les controles d'un message sont appliques dans l'ordre emetteur connu,
\* destinataire connu, type admis, emetteur autorise, et le premier controle en
\* echec decide de la reponse : emetteur inconnu donne ERREUR_EMET meme si le
\* destinataire est inconnu aussi ; emetteur connu et destinataire inconnu
\* donnent ERREUR_DEST.
C6_OrdreDesControles ==
    pcServeur = "route" =>
        /\ recu.ID_emetteur \notin population => RetourUnique("ERREUR_EMET")
        /\ (recu.ID_emetteur \in population /\ recu.ID_destinataire \notin population) =>
            RetourUnique("ERREUR_DEST")
        /\ (recu.ID_emetteur \in population /\ recu.ID_destinataire \in population /\ recu.type # "COM") =>
            RetourUnique("ERREUR_TYPE")
        /\ (recu.ID_emetteur \in population /\ recu.ID_destinataire \in population /\ recu.type = "COM"
                /\ <<recu.ID_emetteur, recu.ID_destinataire>> \in bloques) =>
            RetourUnique("INTERDICTION")

C6_Temoin ==
    /\ pcServeur = "route"
    /\ recu.type = "COM"
    /\ recu.ID_emetteur \notin population
    /\ recu.ID_destinataire \notin population
    /\ recu.ID_emetteur # recu.ID_destinataire
    /\ RetourUnique("ERREUR_EMET")

(***************************************************************************)
(* Assemblage de la population complete et des consignes                   *)
(*                                                                         *)
(* EPop est une fonction totale sur [0, NU(i)[ pour chaque domaine : le    *)
(* peuplement de tous les domaines precede la generation des consignes,    *)
(* qui lit EPop(ED(k)) pour le domaine oppose k.                           *)
(***************************************************************************)

MaxND == 5
MaxNU == 2

\* NOM : Nat -> Mot binaire (traduction des naturels en notation binaire).
RECURSIVE NOM(_)
NOM(n) ==
    IF n < 2 THEN <<n>> ELSE Append(NOM(n \div 2), n % 2)

\* Enumeration ED : [0, ND[ -> identifiants de domaine.
ED(k) ==
    [categorie |-> "domaine", val |-> NOM(k)]

Domaines == {ED(k) : k \in 0..(ND - 1)}

\* Mutant : l'identifiant ne depend que du domaine.
identifiantUtilisateurSansJ(di, uj) ==
    [categorie |-> "utilisateur", val |-> <<NOM(di), NOM(0)>>]

\* Identifiant d'utilisateur, fonction de i et de j.
identifiantUtilisateur(di, uj) ==
    [categorie |-> "utilisateur", val |-> <<NOM(di), NOM(uj)>>]

\* Utilisateur de nom NOM(j) et d'identifiant fonction de i et de j.
utilisateur(di, uj) ==
    [ID |-> identifiantUtilisateur(di, uj), pseudo |-> NOM(uj)]

Indefini ==
    [ID |-> [categorie |-> "indefini", val |-> <<>>], pseudo |-> <<>>]

\* Valeur d'une enumeration en une position (a partir de zero) ; indefinie hors bornes.
Valeur(t, index) ==
    IF index >= 0 /\ index < Len(t) THEN t[index + 1] ELSE Indefini

TableVide == <<>>

\* Ajout d'une association dans une table (l'association existante est remplacee).
Ajouter(t, cle, v) ==
    [x \in (DOMAIN t) \cup {cle} |-> IF x = cle THEN v ELSE t[x]]

\* Mutant : le domaine suivant sur l'anneau au lieu du domaine oppose.
domaineOpposeSuivant(di, nd) ==
    (di + 1) % nd

\* Mutant : moitie arrondie au-dessus au lieu de la division entiere.
domaineOpposeArrondi(di, nd) ==
    (di + (nd + 1) \div 2) % nd

\* k = (i + ND/2) mod ND
domaineOppose(di, nd) ==
    (di + nd \div 2) % nd

\* Mutant : l'indice n'est pas ramene dans [0, NU(k)[.
indexDestinataireSansModulo(di, uj, k, nu) ==
    di + uj

\* Mutant : modulo le nombre d'utilisateurs du domaine emetteur.
indexDestinataireDomaineEmetteur(di, uj, k, nu) ==
    (di + uj) % nu[di]

\* Position qui n'est celle d'aucun element (modulo zero : resultat indefini).
PositionIndefinie == 0 - 1

\* (i + j) mod NU(k)
indexDestinataire(di, uj, k, nu) ==
    IF nu[k] = 0 THEN PositionIndefinie ELSE (di + uj) % nu[k]

\* Contenu fonction de i et de j.
contenuConsigne(di, uj) ==
    <<NOM(di), NOM(uj)>>

InitAnneau ==
    /\ ND \in 1..MaxND
    /\ NU \in [0..(ND - 1) -> 1..MaxNU]
    /\ phase = "peuplement"
    /\ i = 0
    /\ j = 0
    /\ popConnectee = [d \in Domaines |-> TableVide]
    /\ popAConnecter = [d \in Domaines |-> TableVide]
    /\ EPop = [d \in Domaines |-> <<>>]
    /\ C = TableVide
    /\ MessagesAuRepos
    /\ RoutageAuRepos
    /\ ConnexionAuRepos
    /\ NoeudAuRepos
    /\ TableauxAuRepos
    /\ MelangeAuRepos

\* Passage a l'utilisateur suivant, au domaine suivant, ou a la phase suivante.
Avancer(suivante) ==
    IF j + 1 < NU[i] THEN /\ j' = j + 1
                          /\ UNCHANGED <<i, phase>>
    ELSE IF i + 1 < ND THEN /\ i' = i + 1
                            /\ j' = 0
                            /\ UNCHANGED phase
    ELSE /\ i' = 0
         /\ j' = 0
         /\ phase' = suivante

\* Peuplement du domaine emetteur ED(i) : utilisateur j.
Peupler ==
    /\ phase = "peuplement"
    /\ IF j < NU[i]
       THEN LET u == utilisateur(i, j)
            IN /\ popAConnecter' = [popAConnecter EXCEPT ![ED(i)] = Ajouter(@, u.ID, u)]
               /\ EPop' = [EPop EXCEPT ![ED(i)] = Append(@, u)]
       ELSE UNCHANGED <<popAConnecter, EPop>>
    /\ Avancer("consignes")
    /\ UNCHANGED <<ND, NU, popConnectee, C, varsMessages, varsRoutage, varsConnexion, varsNoeud, varsTableaux, varsMelange>>

\* Generation de la consigne de l'utilisateur j du domaine ED(i).
GenererConsigne ==
    /\ phase = "consignes"
    /\ IF j < NU[i]
       THEN LET k == domaineOppose(i, ND)
                emetteur == Valeur(EPop[ED(i)], j)
                destinataire == Valeur(EPop[ED(k)], indexDestinataire(i, j, k, NU))
                consigne == [emetteur |-> <<ED(i), emetteur.ID>>,
                             destinataire |-> <<ED(k), destinataire.ID>>,
                             message |-> contenuConsigne(i, j)]
            IN C' = Ajouter(C, <<ED(i), emetteur.ID>>, consigne)
       ELSE UNCHANGED C
    /\ Avancer("fini")
    /\ UNCHANGED <<ND, NU, popAConnecter, popConnectee, EPop, varsMessages, varsRoutage, varsConnexion, varsNoeud, varsTableaux, varsMelange>>

NextAnneau ==
    \/ Peupler
    \/ GenererConsigne

SpecAnneau == InitAnneau /\ [][NextAnneau]_vars

(***************************************************************************)
(* Assemblage appele hors contrat : NU(i) = 0 pour certains domaines.      *)
(* (i + j) mod NU(k) n'est pas defini quand NU(k) = 0 : soit la position   *)
(* obtenue n'est celle d'aucun utilisateur et la consigne est ajoutee avec *)
(* un destinataire indefini, soit le calcul s'arrete sur l'erreur          *)
(* arithmetique.                                                           *)
(***************************************************************************)

InitAnneauHorsContrat ==
    /\ ND \in 1..MaxND
    /\ NU \in [0..(ND - 1) -> 0..MaxNU]
    /\ phase = "peuplement"
    /\ i = 0
    /\ j = 0
    /\ popConnectee = [d \in Domaines |-> TableVide]
    /\ popAConnecter = [d \in Domaines |-> TableVide]
    /\ EPop = [d \in Domaines |-> <<>>]
    /\ C = TableVide
    /\ MessagesAuRepos
    /\ RoutageAuRepos
    /\ ConnexionAuRepos
    /\ NoeudAuRepos
    /\ TableauxAuRepos
    /\ MelangeAuRepos

ArretModuloZero ==
    /\ phase = "consignes"
    /\ j < NU[i]
    /\ NU[domaineOppose(i, ND)] = 0
    /\ phase' = "arret sur erreur arithmetique"
    /\ UNCHANGED <<ND, NU, i, j, popAConnecter, popConnectee, EPop, C, varsMessages, varsRoutage, varsConnexion, varsNoeud, varsTableaux, varsMelange>>

NextAnneauHorsContrat ==
    \/ Peupler
    \/ GenererConsigne
    \/ ArretModuloZero

SpecAnneauHorsContrat == InitAnneauHorsContrat /\ [][NextAnneauHorsContrat]_vars

(***************************************************************************)
(* Proprietes de l'assemblage (SpecAnneau)                                 *)
(***************************************************************************)

RECURSIVE SommeNU(_)
SommeNU(n) ==
    IF n = 0 THEN 0 ELSE NU[n - 1] + SommeNU(n - 1)

UtilisateursAssembles ==
    UNION {{<<d, id>> : id \in DOMAIN popAConnecter[d]} : d \in Domaines}

Consignes == {C[cle] : cle \in DOMAIN C}

IndiceDomaine(d) == CHOOSE k \in 0..(ND - 1) : ED(k) = d

Appariements ==
    {<<IndiceDomaine(c.emetteur[1]), IndiceDomaine(c.destinataire[1])>> : c \in Consignes}

\* C7 : pour tout ND >= 2 et tout NU strictement positif, l'assemblage produit
\* exactement la somme des NU(i) utilisateurs et autant de consignes, une par
\* utilisateur, sans que deux consignes partagent la meme cle (domaine,
\* utilisateur).
C7_AutantDeConsignesQueDUtilisateurs ==
    (phase = "fini" /\ ND >= 2) =>
        /\ Cardinality(UtilisateursAssembles) = SommeNU(ND)
        /\ Cardinality(DOMAIN C) = SommeNU(ND)
        /\ DOMAIN C = UtilisateursAssembles
        /\ \A cle \in DOMAIN C : C[cle].emetteur = cle

C7_Temoin ==
    /\ phase = "fini"
    /\ ND = 3
    /\ NU = [k \in 0..2 |-> IF k = 1 THEN 1 ELSE 2]
    /\ Cardinality(DOMAIN C) = 5

C9_AppariementSymetriqueSiPair ==
    (phase = "fini" /\ ND % 2 = 0) =>
        /\ \A p \in Appariements : <<p[2], p[1]>> \in Appariements
        /\ (ND = 4 /\ NU = [k \in 0..3 |-> 1]) =>
            /\ Cardinality(UtilisateursAssembles) = 4
            /\ Cardinality(DOMAIN C) = 4
            /\ Appariements = {<<0, 2>>, <<1, 3>>, <<2, 0>>, <<3, 1>>}

C9_Temoin ==
    /\ phase = "fini"
    /\ ND = 4
    /\ NU = [k \in 0..3 |-> 1]
    /\ <<1, 3>> \in Appariements

\* C10 : pour un nombre impair de domaines ND >= 3, le domaine oppose est
\* calcule avec le decalage tronque ND div 2 et l'appariement n'est pas
\* symetrique : pour tout i, l'oppose de l'oppose de i differe de i (pour
\* ND = 5 le decalage est 2 : le domaine 0 envoie au domaine 2 et le domaine 2
\* au domaine 4).
C10_AppariementAsymetriqueSiImpair ==
    (phase = "fini" /\ ND % 2 = 1 /\ ND >= 3) =>
        /\ \A p \in Appariements : p[2] = (p[1] + (ND - 1) \div 2) % ND
        /\ \A p \in Appariements : \A q \in Appariements : q[1] = p[2] => q[2] # p[1]
        /\ \A di \in 0..(ND - 1) : \E p \in Appariements : p[1] = di
        /\ ND = 5 => (<<0, 2>> \in Appariements /\ <<2, 4>> \in Appariements)

C10_Temoin ==
    /\ phase = "fini"
    /\ ND = 5
    /\ <<2, 4>> \in Appariements
    /\ <<4, 2>> \notin Appariements

NUCollision == [k \in 0..4 |-> IF k = 0 THEN 2 ELSE 1]

EmetteurVersDomaineVide(di) ==
    /\ NU[di] > 0
    /\ NU[(di + ND \div 2) % ND] = 0

\* C12 : quand un domaine k a NU(k) = 0 et est le domaine oppose d'un emetteur,
\* l'assemblage echoue immediatement avec une erreur de configuration de
\* domaine, au lieu de sauter la consigne ou de calculer un modulo zero ;
\* aucune consigne dont le destinataire est indefini n'est jamais placee dans
\* la table des consignes.
C12_EchecImmediatSiDomaineVide ==
    /\ \A cle \in DOMAIN C : C[cle].destinataire[2] # Indefini.ID
    /\ phase = "fini" => \A di \in 0..(ND - 1) : ~EmetteurVersDomaineVide(di)

(***************************************************************************)
(* Connexion des utilisateurs : passage de popAConnecter a popConnectee    *)
(* Chaque session cliente tente une connexion, verification et deplacement *)
(* faits en une seule etape.                                               *)
(***************************************************************************)

MaxNDConnexion == 2
MaxNUConnexion == 2

TexteErreurConnexion == "erreur"

\* Population du domaine ED(k) apres assemblage : n utilisateurs.
TableDomaine(k, n) ==
    [id \in {identifiantUtilisateur(k, uj) : uj \in 0..(n - 1)} |->
        utilisateur(k, CHOOSE uj \in 0..(n - 1) : identifiantUtilisateur(k, uj) = id)]

PopulationAssemblee ==
    [d \in Domaines |-> TableDomaine(IndiceDomaine(d), NU[IndiceDomaine(d)])]

EPopAssemblee ==
    [d \in Domaines |-> [p \in 1..NU[IndiceDomaine(d)] |-> utilisateur(IndiceDomaine(d), p - 1)]]

ConsignesAssemblees ==
    LET cles == UNION {{<<di, uj>> : uj \in 0..(NU[di] - 1)} : di \in 0..(ND - 1)}
        cleDe(e) == <<ED(e[1]), identifiantUtilisateur(e[1], e[2])>>
        consigneDe(e) ==
            LET k == domaineOppose(e[1], ND)
            IN [emetteur |-> cleDe(e),
                destinataire |-> <<ED(k), identifiantUtilisateur(k, indexDestinataire(e[1], e[2], k, NU))>>,
                message |-> contenuConsigne(e[1], e[2])]
    IN [cle \in {cleDe(e) : e \in cles} |-> consigneDe(CHOOSE e \in cles : cleDe(e) = cle)]

\* Retrait d'une association d'une table.
Retirer(t, cle) ==
    [x \in (DOMAIN t) \ {cle} |-> t[x]]

\* Mutant : une tentative en echec inscrit quand meme l'identifiant parmi les connectes.
attacherInscritToujours(aConnecter, connectee, id) ==
    IF id \in DOMAIN aConnecter
    THEN [ok |-> TRUE, aConnecter |-> Retirer(aConnecter, id), connectee |-> Ajouter(connectee, id, aConnecter[id])]
    ELSE [ok |-> FALSE, aConnecter |-> aConnecter, connectee |-> Ajouter(connectee, id, Indefini)]

\* Mutant : un utilisateur deja connecte peut se connecter de nouveau.
attacherSansControleDeDoublon(aConnecter, connectee, id) ==
    IF id \in DOMAIN aConnecter
    THEN [ok |-> TRUE, aConnecter |-> Retirer(aConnecter, id), connectee |-> Ajouter(connectee, id, aConnecter[id])]
    ELSE IF id \in DOMAIN connectee
    THEN [ok |-> TRUE, aConnecter |-> aConnecter, connectee |-> connectee]
    ELSE [ok |-> FALSE, aConnecter |-> aConnecter, connectee |-> connectee]

\* Mutant : une seconde tentative remet l'utilisateur parmi ceux a connecter.
attacherBascule(aConnecter, connectee, id) ==
    IF id \in DOMAIN aConnecter
    THEN [ok |-> TRUE, aConnecter |-> Retirer(aConnecter, id), connectee |-> Ajouter(connectee, id, aConnecter[id])]
    ELSE IF id \in DOMAIN connectee
    THEN [ok |-> FALSE, aConnecter |-> Ajouter(aConnecter, id, connectee[id]), connectee |-> Retirer(connectee, id)]
    ELSE [ok |-> FALSE, aConnecter |-> aConnecter, connectee |-> connectee]

\* Mutant : l'utilisateur connecte reste aussi parmi ceux a connecter.
attacherSansRetrait(aConnecter, connectee, id) ==
    IF id \in DOMAIN aConnecter
    THEN [ok |-> TRUE, aConnecter |-> aConnecter, connectee |-> Ajouter(connectee, id, aConnecter[id])]
    ELSE [ok |-> FALSE, aConnecter |-> aConnecter, connectee |-> connectee]

\* Verification et deplacement : l'identifiant passe de aConnecter a connectee
\* s'il est dans aConnecter ; sinon la tentative est rejetee sans rien changer.
attacher(aConnecter, connectee, id) ==
    IF id \in DOMAIN aConnecter
    THEN [ok |-> TRUE, aConnecter |-> Retirer(aConnecter, id), connectee |-> Ajouter(connectee, id, aConnecter[id])]
    ELSE [ok |-> FALSE, aConnecter |-> aConnecter, connectee |-> connectee]

InitConnexion ==
    /\ ND \in 1..MaxNDConnexion
    /\ NU \in [0..(ND - 1) -> 1..MaxNUConnexion]
    /\ phase = "fini"
    /\ i = 0
    /\ j = 0
    /\ popAConnecter = PopulationAssemblee
    /\ popConnectee = [d \in Domaines |-> TableVide]
    /\ EPop = EPopAssemblee
    /\ C = ConsignesAssemblees
    /\ pcSession = [c \in Sessions |-> "pret"]
    /\ resultat = [c \in Sessions |-> SansTentative]
    /\ livraisons = {}
    /\ MessagesAuRepos
    /\ RoutageAuRepos
    /\ NoeudAuRepos
    /\ TableauxAuRepos
    /\ MelangeAuRepos

\* La session c se presente comme l'utilisateur d'indice uj du domaine ED(di).
Connecter(c, di, uj, maintenant) ==
    /\ pcSession[c] = "pret"
    /\ LET d == ED(di)
           id == identifiantUtilisateur(di, uj)
           r == attacher(popAConnecter[d], popConnectee[d], id)
           erreur == messageErreurConnexion(c, id, TexteErreurConnexion, maintenant)
       IN /\ popAConnecter' = [popAConnecter EXCEPT ![d] = r.aConnecter]
          /\ popConnectee' = [popConnectee EXCEPT ![d] = r.connectee]
          /\ resultat' = [resultat EXCEPT ![c] = [statut |-> IF r.ok THEN "connecte" ELSE "rejete", ID |-> id]]
          /\ livraisons' = IF r.ok THEN livraisons
                           ELSE livraisons \cup {[a |-> erreur.ID_destinataire, session |-> c, msg |-> erreur]}
    /\ pcSession' = [pcSession EXCEPT ![c] = "fini"]
    /\ UNCHANGED <<ND, NU, phase, i, j, EPop, C, varsMessages, varsRoutage, varsNoeud, varsTableaux, varsMelange>>

NextConnexion ==
    \E c \in Sessions, di \in 0..(ND - 1), maintenant \in Dates :
        \E uj \in 0..NU[di] : Connecter(c, di, uj, maintenant)

SpecConnexion == InitConnexion /\ [][NextConnexion]_vars

\* L'etat initial des connexions est l'etat final de l'assemblage.
AssemblageDonnePopulationAssemblee ==
    phase = "fini" =>
        /\ popAConnecter = PopulationAssemblee
        /\ EPop = EPopAssemblee
        /\ C = ConsignesAssemblees

(***************************************************************************)
(* Proprietes des connexions (SpecConnexion)                               *)
(***************************************************************************)

DomaineDe(id) == CHOOSE d \in Domaines : d.val = id.val[1]

TentativeDe(c) == pcSession[c] = "pret" /\ pcSession'[c] = "fini"

DejaConnecte(id) == id \in DOMAIN popConnectee[DomaineDe(id)]

AConnecter(id) == id \in DOMAIN popAConnecter[DomaineDe(id)]

SessionsConnectees(id) ==
    {c \in Sessions : resultat[c].statut = "connecte" /\ resultat[c].ID = id}

SessionsRejetees(id) ==
    {c \in Sessions : resultat[c].statut = "rejete" /\ resultat[c].ID = id}

IdsAssembles == UNION {DOMAIN PopulationAssemblee[d] : d \in Domaines}

\* C13 : un identifiant d'utilisateur passe de popAConnecter a popConnectee au
\* plus une fois : une tentative pour un identifiant deja dans popConnectee (ou
\* absent de popAConnecter) est rejetee avec une erreur, et popAConnecter et
\* popConnectee de tous les domaines restent exactement ce qu'elles etaient.
C13_TentativeRejeteeSansEffet ==
    [][\A c \in Sessions :
        (TentativeDe(c) /\ ~AConnecter(resultat'[c].ID)) =>
            /\ resultat'[c].statut = "rejete"
            /\ \E l \in livraisons' \ livraisons : l.session = c
            /\ popAConnecter' = popAConnecter
            /\ popConnectee' = popConnectee]_vars

C13_Temoin ==
    \E c1, c2 \in Sessions :
        /\ resultat[c1].statut = "connecte"
        /\ resultat[c2].statut = "rejete"
        /\ resultat[c2].ID = resultat[c1].ID
        /\ DejaConnecte(resultat[c1].ID)
        /\ ~AConnecter(resultat[c1].ID)

\* C14 : quel que soit l'entrelacement de tentatives concurrentes pour le meme
\* identifiant, verification et deplacement etant faits en une seule etape,
\* exactement une tentative reussit et toutes les autres sont signalees en
\* erreur ; l'identifiant n'est jamais deux fois dans popConnectee et n'est
\* jamais perdu des deux tables.
C14_UneSeuleConnexionParIdentifiant ==
    \A id \in IdsAssembles :
        /\ Cardinality(SessionsConnectees(id)) <= 1
        /\ (SessionsConnectees(id) \cup SessionsRejetees(id) # {}) =>
            Cardinality(SessionsConnectees(id)) = 1
        /\ DejaConnecte(id) <=> (SessionsConnectees(id) # {})
        /\ AConnecter(id) <=> ~DejaConnecte(id)
        /\ \A d \in Domaines : d # DomaineDe(id) =>
            (id \notin DOMAIN popConnectee[d] /\ id \notin DOMAIN popAConnecter[d])
        /\ \A c \in SessionsRejetees(id) : \E l \in livraisons : l.session = c
        /\ DejaConnecte(id) => popConnectee[DomaineDe(id)][id] = PopulationAssemblee[DomaineDe(id)][id]

C14_Temoin ==
    \E id \in IdsAssembles :
        /\ \A c \in Sessions : pcSession[c] = "fini" /\ resultat[c].ID = id
        /\ Cardinality(SessionsConnectees(id)) = 1
        /\ Cardinality(SessionsRejetees(id)) = 2

\* C15 : un utilisateur passe dans popConnectee n'en revient jamais : dans tout
\* etat ulterieur, son identifiant est encore dans popConnectee et n'est pas
\* dans popAConnecter.
C15_JamaisDeRetour ==
    [][\A d \in Domaines : \A id \in DOMAIN popConnectee[d] :
        /\ id \in DOMAIN popConnectee'[d]
        /\ id \notin DOMAIN popAConnecter'[d]]_vars

C15_Temoin ==
    \E c1, c2 \in Sessions :
        /\ c1 # c2
        /\ resultat[c1].statut = "connecte"
        /\ resultat[c2].statut = "rejete"
        /\ resultat[c2].ID = resultat[c1].ID
        /\ \A c \in Sessions : pcSession[c] = "fini"
        /\ DejaConnecte(resultat[c1].ID)

\* C16 : toute tentative de connexion en echec (doublon ou identifiant absent
\* de popAConnecter) produit un message ERREUR_CONNEXION dont l'emetteur et le
\* destinataire sont tous deux le sommet qui se connecte ; l'echec n'est jamais
\* passe sous silence et ce message n'est remis a aucun autre sommet.
C16_EchecDonneErreurConnexion ==
    /\ \A c \in Sessions : resultat[c].statut = "rejete" =>
        /\ Cardinality({l \in livraisons : l.session = c}) = 1
        /\ \A l \in livraisons : l.session = c =>
            /\ l.msg.type = "ERREUR_CONNEXION"
            /\ l.msg.ID_emetteur = resultat[c].ID
            /\ l.msg.ID_destinataire = resultat[c].ID
            /\ l.a = resultat[c].ID
    /\ \A l \in livraisons : resultat[l.session].statut = "rejete"

C16_Temoin ==
    \E c1, c2 \in Sessions :
        /\ resultat[c1].statut = "rejete"
        /\ resultat[c1].ID \notin IdsAssembles
        /\ resultat[c2].statut = "rejete"
        /\ resultat[c2].ID \in IdsAssembles
        /\ Cardinality(livraisons) = 2

\* C23 : dans tout etat atteignable du cycle de connexion, pour chaque domaine,
\* popAConnecter et popConnectee sont disjointes et leur reunion est exactement
\* l'ensemble des utilisateurs assembles pour ce domaine : au depart
\* popAConnecter contient tous les utilisateurs assembles et popConnectee est
\* vide, et aucune suite de connexions reussies ou rejetees ne cree, ne perd ni
\* ne duplique un utilisateur.
C23_PartitionDeLaPopulation ==
    /\ \A d \in Domaines :
        /\ DOMAIN popAConnecter[d] \cap DOMAIN popConnectee[d] = {}
        /\ DOMAIN popAConnecter[d] \cup DOMAIN popConnectee[d] = DOMAIN PopulationAssemblee[d]
        /\ \A id \in DOMAIN popAConnecter[d] : popAConnecter[d][id] = PopulationAssemblee[d][id]
        /\ \A id \in DOMAIN popConnectee[d] : popConnectee[d][id] = PopulationAssemblee[d][id]
    /\ (\A c \in Sessions : pcSession[c] = "pret") =>
        /\ popAConnecter = PopulationAssemblee
        /\ \A d \in Domaines : DOMAIN popConnectee[d] = {}

C23_Temoin ==
    /\ \E d \in Domaines :
        /\ DOMAIN popAConnecter[d] # {}
        /\ DOMAIN popConnectee[d] # {}
    /\ \E c \in Sessions : resultat[c].statut = "connecte"
    /\ \E c \in Sessions : resultat[c].statut = "rejete" /\ resultat[c].ID \notin IdsAssembles
    /\ \E c \in Sessions : resultat[c].statut = "rejete" /\ resultat[c].ID \in IdsAssembles

(***************************************************************************)
(* Noeuds mutables et configurations initiales                             *)
(***************************************************************************)

Pseudos == {"ann", "bob"}

UniteZERO == "ZERO"

FormatSommetTchat == [ID : IdsSommet, pseudo : Pseudos]

\* Tables d'identification de sommets : a chaque identifiant present, un sommet
\* de cet identifiant.
FormatTableIdentification ==
    UNION {{[identification |-> [id \in S |-> [ID |-> id, pseudo |-> ps[id]]]] : ps \in [S -> Pseudos]} : S \in SUBSET IdsSommet}

FormatNoeudTchat == [centre : FormatSommetTchat, voisins : FormatTableIdentification]

\* creerNoeudTchatMutable(n) : l'enveloppe prend la description telle quelle.
creerNoeudTchatMutable(n) ==
    [centre |-> n.centre, voisins |-> n.voisins]

\* creerNoeudTchatSansVoisinsMutable(centre) : noeud dont la table des voisins est vide.
creerNoeudTchatSansVoisinsMutable(centre) ==
    [centre |-> centre, voisins |-> [identification |-> TableVide]]

\* Mutant : la configuration est creee sans les voisins du noeud.
configurationDeNoeudTchatSansVoisins(n, date) ==
    [configurationInitiale |-> UniteZERO, centre |-> n.centre, voisins |-> [identification |-> TableVide], date |-> date]

configurationDeNoeudTchat(n, date) ==
    [configurationInitiale |-> UniteZERO, centre |-> n.centre, voisins |-> n.voisins, date |-> date]

\* ConfigurationTchatParEnveloppe.noeud() sur l'etat c.
noeud(c) ==
    [centre |-> c.centre, voisins |-> c.voisins]

InitNoeud ==
    /\ pcNoeud = "absent"
    /\ noeudMutable = Aucun
    /\ pcConfiguration = "absente"
    /\ entreeConfiguration = Aucun
    /\ configuration = Aucun
    /\ noeudExtrait = Aucun
    /\ MessagesAuRepos
    /\ RoutageAuRepos
    /\ AnneauAuRepos
    /\ ConnexionAuRepos
    /\ TableauxAuRepos
    /\ MelangeAuRepos

horsNoeud == <<varsMessages, varsRoutage, varsAnneau, varsConnexion, varsTableaux, varsMelange>>

CreerNoeudTchatMutable(n) ==
    /\ pcNoeud = "absent"
    /\ noeudMutable' = creerNoeudTchatMutable(n)
    /\ pcNoeud' = "cree"
    /\ UNCHANGED <<pcConfiguration, entreeConfiguration, configuration, noeudExtrait, horsNoeud>>

CreerNoeudTchatSansVoisinsMutable(centre) ==
    /\ pcNoeud = "absent"
    /\ noeudMutable' = creerNoeudTchatSansVoisinsMutable(centre)
    /\ pcNoeud' = "cree"
    /\ UNCHANGED <<pcConfiguration, entreeConfiguration, configuration, noeudExtrait, horsNoeud>>

\* Ajout d'un voisin au noeud mutable (l'association existante est remplacee).
AjouterVoisin(v) ==
    /\ pcNoeud = "cree"
    /\ noeudMutable' = [noeudMutable EXCEPT !.voisins.identification = Ajouter(@, v.ID, v)]
    /\ UNCHANGED <<pcNoeud, pcConfiguration, entreeConfiguration, configuration, noeudExtrait, horsNoeud>>

\* Retrait d'un voisin du noeud mutable (sans effet si l'identifiant est absent).
RetirerVoisin(id) ==
    /\ pcNoeud = "cree"
    /\ noeudMutable' = [noeudMutable EXCEPT !.voisins.identification = Retirer(@, id)]
    /\ UNCHANGED <<pcNoeud, pcConfiguration, entreeConfiguration, configuration, noeudExtrait, horsNoeud>>

ConfigurationDeNoeudTchat(n, date) ==
    /\ pcConfiguration = "absente"
    /\ entreeConfiguration' = [noeud |-> n, date |-> date]
    /\ configuration' = configurationDeNoeudTchat(n, date)
    /\ pcConfiguration' = "creee"
    /\ UNCHANGED <<pcNoeud, noeudMutable, noeudExtrait, horsNoeud>>

Noeud ==
    /\ pcConfiguration = "creee"
    /\ noeudExtrait' = noeud(configuration)
    /\ pcConfiguration' = "extraite"
    /\ UNCHANGED <<pcNoeud, noeudMutable, entreeConfiguration, configuration, horsNoeud>>

NextNoeud ==
    \/ \E n \in FormatNoeudTchat : CreerNoeudTchatMutable(n)
    \/ \E centre \in FormatSommetTchat : CreerNoeudTchatSansVoisinsMutable(centre)
    \/ \E v \in FormatSommetTchat : AjouterVoisin(v)
    \/ \E id \in IdsSommet : RetirerVoisin(id)
    \/ \E n \in FormatNoeudTchat, date \in Dates : ConfigurationDeNoeudTchat(n, date)
    \/ Noeud

SpecNoeud == InitNoeud /\ [][NextNoeud]_vars

(***************************************************************************)
(* Proprietes des noeuds et configurations (SpecNoeud)                     *)
(***************************************************************************)

\* C17 : configurationDeNoeudTchat(noeud, date) construit une configuration
\* dont le centre et les voisins sont exactement ceux du noeud et dont la date
\* est celle donnee, pour tout noeud et sans aucune validation ; le noeud
\* extrait de cette configuration par noeud() a le meme centre et les memes
\* voisins.
C17_ConfigurationCopieLeNoeud ==
    /\ pcConfiguration \in {"creee", "extraite"} =>
        /\ configuration.centre = entreeConfiguration.noeud.centre
        /\ configuration.voisins = entreeConfiguration.noeud.voisins
        /\ configuration.date = entreeConfiguration.date
        /\ configuration.configurationInitiale = UniteZERO
    /\ pcConfiguration = "extraite" =>
        /\ noeudExtrait.centre = entreeConfiguration.noeud.centre
        /\ noeudExtrait.voisins = entreeConfiguration.noeud.voisins
    /\ pcConfiguration = "absente" => \A n \in FormatNoeudTchat, date \in Dates :
        ENABLED ConfigurationDeNoeudTchat(n, date)

C17_Temoin ==
    /\ pcConfiguration = "extraite"
    /\ entreeConfiguration.noeud.centre.ID \in DOMAIN entreeConfiguration.noeud.voisins.identification
    /\ Cardinality(DOMAIN noeudExtrait.voisins.identification) = 2
    /\ noeudExtrait.voisins.identification[entreeConfiguration.noeud.centre.ID] # entreeConfiguration.noeud.centre

\* C18 : dans tout noeud mutable atteint pendant l'assemblage, a partir de
\* creerNoeudTchatSansVoisinsMutable(centre) ou de creerNoeudTchatMutable et de
\* toute suite d'ajouts et de retraits de voisins, la table des voisins ne
\* contient jamais l'identifiant du centre du noeud.
C18_CentreJamaisVoisin ==
    pcNoeud = "cree" =>
        noeudMutable.centre.ID \notin DOMAIN noeudMutable.voisins.identification

(***************************************************************************)
(* Tableaux mutables par enveloppe                                         *)
(***************************************************************************)

\* Nombre de tables, et de tableaux natifs, crees au plus.
MaxTables == 2
MaxLongueur == 2

\* Valeur JavaScript undefined : un element possible d'un tableau natif, et
\* le resultat de pop() sur un tableau natif vide.
Indefinie == "undefined"

TIN == {"a", Indefinie}

\* Tableaux natifs de longueur bornee.
TableauxNatifs == UNION {[1..n -> TIN] : n \in 0..MaxLongueur}

\* La fonction f passee a application.
f(x) == "f(" \o x \o ")"

\* Conversion composee par n applications de f a partir de l'identite.
RECURSIVE conversionInEx(_, _)
conversionInEx(n, x) == IF n = 0 THEN x ELSE f(conversionInEx(n - 1, x))

\* FABRIQUE_TABLEAU_JSON.creerVideMutable : etat vide sur le tableau natif d'adresse a.
creerVideMutable(a) == [taille |-> 0, tableau |-> a]

\* FABRIQUE_TABLEAU_JSON.creerEnveloppeMutable : etat partageant le tableau natif d'adresse a.
creerEnveloppeMutable(nat, a) == [taille |-> Len(nat[a].contenu), tableau |-> a]

\* Etat de la table produite par application : this.etat(), partage.
etatDApplication(ets, e) == e

\* MODULE_TABLEAU_JSON.ajouterEnFin : t.taille++ ; t.tableau.push(x).
ajouterEnFin(nat, ets, e, x) ==
    [natifs |-> [nat EXCEPT ![ets[e].tableau].contenu = Append(@, x)],
     etats |-> [ets EXCEPT ![e].taille = @ + 1]]

\* Array.prototype.pop : retire et rend le dernier element, undefined si le tableau est vide.
pop(contenu) ==
    IF contenu = <<>>
    THEN [r |-> Indefinie, contenu |-> contenu]
    ELSE [r |-> contenu[Len(contenu)], contenu |-> SubSeq(contenu, 1, Len(contenu) - 1)]

\* MODULE_TABLEAU_JSON.retirerEnFin : pop, puis erreur si le resultat est
\* undefined, sinon decrement de la taille et retour du resultat.
retirerEnFin(nat, ets, e) ==
    LET p == pop(nat[ets[e].tableau].contenu)
    IN  [natifs |-> [nat EXCEPT ![ets[e].tableau].contenu = p.contenu],
         etats |-> IF p.r = Indefinie THEN ets ELSE [ets EXCEPT ![e].taille = @ - 1],
         valeur |-> p.r,
         erreur |-> p.r = Indefinie]

\* taille() de la table t.
taille(t) == etats[tables[t].etat].taille

\* Tableau natif sous-jacent de la table t.
tableau(t) == natifs[etats[tables[t].etat].tableau].contenu

\* valeur(index) de la table t, index compte a partir de 0.
valeur(t, index) ==
    IF index < Len(tableau(t))
    THEN conversionInEx(tables[t].conversion, tableau(t)[index + 1])
    ELSE Indefinie

\* Ce qu'un lecteur de la table t observe : sa taille et ses valeurs.
Vue(t) == [taille |-> taille(t), valeurs |-> [k \in 1..taille(t) |-> valeur(t, k - 1)]]

AucuneOperation == [op |-> "aucune", table |-> 0, valeur |-> Indefinie, erreur |-> FALSE]

Resultat(op, t) == [op |-> op, table |-> t, valeur |-> Indefinie, erreur |-> FALSE]

InitTableaux ==
    /\ natifs = <<>>
    /\ etats = <<>>
    /\ tables = <<>>
    /\ dernier = AucuneOperation
    /\ MessagesAuRepos
    /\ RoutageAuRepos
    /\ AnneauAuRepos
    /\ ConnexionAuRepos
    /\ NoeudAuRepos
    /\ MelangeAuRepos

horsTableaux == <<varsMessages, varsRoutage, varsAnneau, varsConnexion, varsNoeud, varsMelange>>

\* L'appelant cree un tableau natif t : TIN[], qu'il passera aux fabriques.
CreerTableauNatif(contenu) ==
    /\ Len(natifs) < MaxTables
    /\ natifs' = Append(natifs, [contenu |-> contenu, appelant |-> TRUE])
    /\ dernier' = Resultat("tableau natif", 0)
    /\ UNCHANGED <<etats, tables, horsTableaux>>

CreerTableauMutableVide ==
    /\ Len(natifs) < MaxTables
    /\ Len(tables) < MaxTables
    /\ natifs' = Append(natifs, [contenu |-> <<>>, appelant |-> FALSE])
    /\ etats' = Append(etats, creerVideMutable(Len(natifs) + 1))
    /\ tables' = Append(tables, [etat |-> Len(etats) + 1, conversion |-> 0, source |-> 0])
    /\ dernier' = Resultat("creerTableauMutableVide", Len(tables) + 1)
    /\ UNCHANGED horsTableaux

CreerTableauMutableParEnveloppe(a) ==
    /\ Len(tables) < MaxTables
    /\ natifs[a].appelant
    /\ etats' = Append(etats, creerEnveloppeMutable(natifs, a))
    /\ tables' = Append(tables, [etat |-> Len(etats) + 1, conversion |-> 0, source |-> 0])
    /\ dernier' = Resultat("creerTableauMutableParEnveloppe", Len(tables) + 1)
    /\ UNCHANGED <<natifs, horsTableaux>>

\* Table vide, puis un ajouterEnFin par element de t : le tableau natif est une copie.
CreerTableauMutableParCopie(a) ==
    /\ Len(natifs) < MaxTables
    /\ Len(tables) < MaxTables
    /\ natifs[a].appelant
    /\ natifs' = Append(natifs, [contenu |-> natifs[a].contenu, appelant |-> FALSE])
    /\ etats' = Append(etats, [taille |-> Len(natifs[a].contenu), tableau |-> Len(natifs) + 1])
    /\ tables' = Append(tables, [etat |-> Len(etats) + 1, conversion |-> 0, source |-> 0])
    /\ dernier' = Resultat("creerTableauMutableParCopie", Len(tables) + 1)
    /\ UNCHANGED horsTableaux

Application(t) ==
    /\ Len(tables) < MaxTables
    /\ LET e == etatDApplication(etats, tables[t].etat)
       IN  /\ etats' = IF e \in 1..Len(etats) THEN etats ELSE Append(etats, etats[tables[t].etat])
           /\ tables' = Append(tables, [etat |-> e, conversion |-> tables[t].conversion + 1, source |-> t])
    /\ dernier' = Resultat("application", Len(tables) + 1)
    /\ UNCHANGED <<natifs, horsTableaux>>

AjouterEnFin(t, x) ==
    /\ Len(tableau(t)) < MaxLongueur
    /\ taille(t) < MaxLongueur
    /\ LET r == ajouterEnFin(natifs, etats, tables[t].etat, x)
       IN  /\ natifs' = r.natifs
           /\ etats' = r.etats
    /\ dernier' = Resultat("ajouterEnFin", t)
    /\ UNCHANGED <<tables, horsTableaux>>

RetirerEnFin(t) ==
    /\ taille(t) > 0 - MaxLongueur
    /\ LET r == retirerEnFin(natifs, etats, tables[t].etat)
       IN  /\ natifs' = r.natifs
           /\ etats' = r.etats
           /\ dernier' = [op |-> "retirerEnFin", table |-> t, valeur |-> r.valeur, erreur |-> r.erreur]
    /\ UNCHANGED <<tables, horsTableaux>>

NextTableaux ==
    \/ \E contenu \in TableauxNatifs : CreerTableauNatif(contenu)
    \/ CreerTableauMutableVide
    \/ \E a \in 1..Len(natifs) : CreerTableauMutableParEnveloppe(a)
    \/ \E a \in 1..Len(natifs) : CreerTableauMutableParCopie(a)
    \/ \E t \in 1..Len(tables) : Application(t)
    \/ \E t \in 1..Len(tables), x \in TIN : AjouterEnFin(t, x)
    \/ \E t \in 1..Len(tables) : RetirerEnFin(t)

SpecTableaux == InitTableaux /\ [][NextTableaux]_vars

(***************************************************************************)
(* Proprietes des tableaux mutables (SpecTableaux)                         *)
(***************************************************************************)

\* C19 : pour toute table mutable obtenue des fabriques (creerTableauMutableVide,
\* creerTableauMutableParEnveloppe, creerTableauMutableParCopie, application),
\* apres toute suite d'ajouterEnFin et de retirerEnFin sur ces tables, y compris
\* un retirerEnFin qui echoue sur une table vide, la taille enregistree est
\* egale a la longueur du tableau natif sous-jacent.
C19_TailleEgaleLongueur ==
    \A t \in 1..Len(tables) : taille(t) = Len(tableau(t))

\* C20 : application(f) sur une table mutable cree une table dont les valeurs
\* sont les images par f des valeurs de la table au moment de l'appel : un
\* ajouterEnFin ou un retirerEnFin ulterieur sur la table d'origine ne change ni
\* la taille ni les valeurs de la table rendue par application.
C20_ApplicationIndependante ==
    [][\A u \in 1..Len(tables) :
        (/\ tables[u].source # 0
         /\ dernier'.op \in {"ajouterEnFin", "retirerEnFin"}
         /\ dernier'.table = tables[u].source)
        => Vue(u)' = Vue(u)]_vars

\* C21 : retirerEnFin sur une table mutable non vide retire et rend le dernier
\* element et decremente la taille de un ; sur une table vide il declenche une
\* erreur et laisse la taille et le tableau natif inchanges ; ajouterEnFin(x)
\* suivi de retirerEnFin() rend x et remet la table dans son contenu et sa
\* taille d'avant.
C21_RetirerEnFinDefaitAjouterEnFin ==
    [][/\ \A t \in 1..Len(tables) :
            (dernier'.op = "retirerEnFin" /\ dernier'.table = t) =>
                IF tableau(t) # <<>>
                THEN /\ ~dernier'.erreur
                     /\ dernier'.valeur = tableau(t)[Len(tableau(t))]
                     /\ tableau(t)' = SubSeq(tableau(t), 1, Len(tableau(t)) - 1)
                     /\ taille(t)' = taille(t) - 1
                ELSE /\ dernier'.erreur
                     /\ tableau(t)' = tableau(t)
                     /\ taille(t)' = taille(t)
       /\ \A t \in 1..Len(tables), x \in TIN :
            LET e == tables[t].etat
                ajout == ajouterEnFin(natifs, etats, e, x)
                retrait == retirerEnFin(ajout.natifs, ajout.etats, e)
            IN  /\ ~retrait.erreur
                /\ retrait.valeur = x
                /\ retrait.natifs = natifs
                /\ retrait.etats = etats]_vars

(***************************************************************************)
(* Melange de Fisher-Yates                                                 *)
(***************************************************************************)

MaxTailleMelange == 4

\* Tableaux natifs passes a melange.
TableauxAMelanger == UNION {[1..n -> TIN] : n \in 0..MaxTailleMelange}

\* Tirages possibles de entierAleatoire(max) : j tel que 0 <= j <= max.
entierAleatoire(max) == 0..max

\* Mutant : t[i] recoit t[j] mais t[j] garde sa valeur.
echangerSansRetour(a, x, y) == [a EXCEPT ![x + 1] = a[y + 1]]

\* [t[i], t[j]] = [t[j], t[i]], indices comptes a partir de 0.
echanger(a, x, y) == [a EXCEPT ![x + 1] = a[y + 1], ![y + 1] = a[x + 1]]

TableauJSONVide == [taille |-> 0, tableau |-> <<>>]

InitMelange ==
    /\ pcMelange = "appel"
    /\ entree \in TableauxAMelanger
    /\ tab = entree
    /\ copie = <<>>
    /\ indice = 0
    /\ resultatMelange = TableauJSONVide
    /\ MessagesAuRepos
    /\ RoutageAuRepos
    /\ AnneauAuRepos
    /\ ConnexionAuRepos
    /\ NoeudAuRepos
    /\ TableauxAuRepos

horsMelange == <<varsMessages, varsRoutage, varsAnneau, varsConnexion, varsNoeud, varsTableaux>>

\* const n = tab.length ; t = copie de tab ; i = n - 1.
Copier ==
    /\ pcMelange = "appel"
    /\ copie' = [k \in 1..Len(tab) |-> tab[k]]
    /\ indice' = Len(tab) - 1
    /\ pcMelange' = "boucle"
    /\ UNCHANGED <<entree, tab, resultatMelange, horsMelange>>

\* Un tour de boucle : tirage de j, echange de t[i] et t[j], i--.
Echanger(tirage) ==
    /\ pcMelange = "boucle"
    /\ indice > 0
    /\ tirage \in entierAleatoire(indice)
    /\ copie' = echanger(copie, indice, tirage)
    /\ indice' = indice - 1
    /\ UNCHANGED <<pcMelange, entree, tab, resultatMelange, horsMelange>>

\* Sortie de boucle : return { taille: tab.length, tableau: t }.
Retourner ==
    /\ pcMelange = "boucle"
    /\ ~(indice > 0)
    /\ resultatMelange' = [taille |-> Len(tab), tableau |-> copie]
    /\ pcMelange' = "fini"
    /\ UNCHANGED <<entree, tab, copie, indice, horsMelange>>

NextMelange ==
    \/ Copier
    \/ \E tirage \in 0..MaxTailleMelange : Echanger(tirage)
    \/ Retourner

SpecMelange == InitMelange /\ [][NextMelange]_vars

(***************************************************************************)
(* Proprietes du melange (SpecMelange)                                     *)
(***************************************************************************)

Occurrences(a, x) == Cardinality({k \in 1..Len(a) : a[k] = x})

MemeMultiEnsemble(a, b) == \A x \in TIN : Occurrences(a, x) = Occurrences(b, x)

\* C22 : pour tout tableau en entree et toute suite de tirages j avec
\* 0 <= j <= i, melange rend un tableau de meme taille dont les elements sont
\* une permutation de ceux de l'entree (meme multi-ensemble), et le tableau en
\* entree lui-meme reste inchange.
C22_MelangeEstUnePermutation ==
    /\ tab = entree
    /\ pcMelange = "boucle" => MemeMultiEnsemble(copie, entree)
    /\ pcMelange = "fini" =>
        /\ resultatMelange.taille = Len(entree)
        /\ Len(resultatMelange.tableau) = Len(entree)
        /\ MemeMultiEnsemble(resultatMelange.tableau, entree)

C22_Temoin ==
    /\ pcMelange = "fini"
    /\ Len(entree) = MaxTailleMelange
    /\ resultatMelange.tableau # entree
    /\ resultatMelange.tableau[1] = entree[Len(entree)]
    /\ entree[1] # entree[Len(entree)]

====
